---- MODULE Spec2Model ----
(***************************************************************************)
(* Model of aws-transcribe-to-srt: Transcriber.transcribe (the workflow    *)
(* from bucket check to cleanup) and Transcriber.convertJsonToSrt (the     *)
(* pass that groups transcript items into subtitle cues).                  *)
(*                                                                         *)
(* Times are whole milliseconds.  Strings the code slices or concatenates  *)
(* are sequences of one-character strings.                                 *)
(***************************************************************************)
EXTENDS Integers, Sequences, FiniteSets, TLC

\* ------------------------------------------------------------------ bounds
MaxItems == 3          \* longest transcript item sequence fetched
MaxPolls == 2          \* the poll counter saturates here (polling itself does not stop)
MaxLiveItems == 2      \* longest item sequence fetched where termination is examined

\* ------------------------------------------------------- program constants
MaxCueSeconds == 5     \* index.ts:299  item.end_time - current_start > 5
FractionDigits == 3    \* index.ts:26   toFixed(3)
HoursWidth == 2        \* index.ts:28   padString(hours, 2)
MinutesWidth == 2      \* index.ts:29   padString(minutes, 2)
SecondsWidth == 6      \* index.ts:30   padString(seconds, 6)

MsPerSecond == 10 ^ FractionDigits

\* Item times (ms) the fetched transcripts draw from: 0 s, 0.5 s, 6 s.
Times == {0, 500, 6000}

\* alternatives[0].content of the items
Words == {<<"h", "i">>, <<"a">>}
Marks == {<<".">>}

\* ------------------------------------------------------------ time format
DigitChar == <<"0", "1", "2", "3", "4", "5", "6", "7", "8", "9">>

RECURSIVE Digits(_)
\* String(n) for a non-negative integer n
Digits(n) ==
    IF n < 10 THEN <<DigitChar[n + 1]>>
    ELSE Digits(n \div 10) \o <<DigitChar[(n % 10) + 1]>>

Zeros(length) == [k \in 1..length |-> "0"]

\* (new Array(length + 1).join('0') + str).slice(-length)
padString(str, length) ==
    LET s == Zeros(length) \o str
    IN  SubSeq(s, Len(s) - length + 1, Len(s))

\* toFixed with a fault: the fraction is printed without its leading zeros
toFixed_ShortFraction(ms) ==
    Digits(ms \div MsPerSecond) \o <<".">> \o Digits(ms % MsPerSecond)

\* Number.toFixed(3) of a time held as whole milliseconds
toFixed(ms) ==
    Digits(ms \div MsPerSecond) \o <<".">> \o
    padString(Digits(ms % MsPerSecond), FractionDigits)

secondsToMinutes(ms) ==
    LET hours   == ms \div (3600 * MsPerSecond)
        total   == ms - hours * 3600 * MsPerSecond
        minutes == total \div (60 * MsPerSecond)
        seconds == toFixed(total - minutes * 60 * MsPerSecond)
    IN  padString(Digits(hours), HoursWidth) \o <<":">> \o
        padString(Digits(minutes), MinutesWidth) \o <<":">> \o
        padString(seconds, SecondsWidth)

\* ------------------------------------------------------- transcript items
\* IItem: start_time, end_time, alternatives[0].content, type
IItem ==
    [start_time : Times, end_time : Times,
     type : {"pronunciation"}, content : Words]
    \cup
    [start_time : Times, end_time : Times,
     type : {"punctuation"}, content : Marks]

\* The data model's items: end_time >= start_time, times non-decreasing
\* along the sequence.
Follows(prev, it) ==
    /\ it.start_time <= it.end_time
    /\ prev.start_time <= it.start_time
    /\ prev.end_time <= it.end_time

RECURSIVE ItemSeqs(_)
ItemSeqs(n) ==
    IF n = 0 THEN {<<>>}
    ELSE LET shorter == ItemSeqs(n - 1)
             longest == {t \in shorter : Len(t) = n - 1}
             fits(t, it) == /\ it.start_time <= it.end_time
                            /\ t # <<>> => Follows(t[Len(t)], it)
         IN  shorter \cup
             {Append(p[1], p[2]) :
                 p \in {q \in longest \X IItem : fits(q[1], q[2])}}

\* json.results.items of the documents the result URL can return
Transcripts == ItemSeqs(MaxItems)

\* --------------------------------------------------------------- state
VARIABLES
    pc,               \* position of the run inside transcribe / convertJsonToSrt
    error,            \* what the rejected promise of transcribe carries
    failedCall,       \* the remote or file call whose failure aborted the run
    bucketPresent,    \* the bucket name is among the listed buckets
    fileExists,       \* existsSync(inputFile)
    deleteFile,       \* params.deleteFile
    bucketCreated,    \* this.bucketCreated
    job,              \* TranscriptionJobStatus last returned by getTranscriptionJob
    calls,            \* how often each remote or file call was issued
    outFile,          \* the file at params.outputFile
    items,            \* json.results.items
    index,            \* forEach index (0-based)
    convertedOutput,  \* cues appended so far
    subtitleIndex,
    current_start,
    nextline,
    target,           \* Bucket and Key of the upload and of the deleteObject issued
    seconds,          \* the argument of a lone secondsToMinutes call (ms)
    formatted         \* what that call returned

vars == <<pc, error, failedCall, bucketPresent, fileExists, deleteFile,
          bucketCreated, job, calls, outFile, items, index, convertedOutput,
          subtitleIndex, current_start, nextline, target, seconds, formatted>>

fmtVars == <<seconds, formatted>>

envVars == <<bucketPresent, fileExists, deleteFile>>
segVars == <<items, index, convertedOutput, subtitleIndex, current_start, nextline>>

CallNames == {"listBuckets", "createBucket", "upload", "startTranscriptionJob",
              "getTranscriptionJob", "fetch", "writeFile", "deleteObject"}

JobStatuses == {"QUEUED", "IN_PROGRESS", "COMPLETED", "FAILED"}

\* params of the run: the resolved input path and the bucket (part_000 lines 52-64)
inputFile == <<"videos", "talk.mp4">>
bucketName == "media"

\* basename(inputFile), line 108
basename(path) == <<path[Len(path)]>>
mediaFile == basename(inputFile)

\* no call issued yet
NoTarget == [Bucket |-> "", Key |-> <<>>]

\* the state every run starts in
RunInit ==
    /\ pc = "BucketCheck"
    /\ error = "none"
    /\ failedCall = "none"
    /\ bucketCreated = FALSE
    /\ job = "none"
    /\ calls = [c \in CallNames |-> 0]
    /\ outFile = "absent"
    /\ items = <<>>
    /\ index = 0
    /\ convertedOutput = <<>>
    /\ subtitleIndex = 1
    /\ current_start = 0
    /\ nextline = <<>>
    /\ target = [c \in {"upload", "deleteObject"} |-> NoTarget]

Init ==
    /\ RunInit
    /\ bucketPresent \in BOOLEAN
    /\ fileExists \in BOOLEAN
    /\ deleteFile \in BOOLEAN
    /\ seconds = 0
    /\ formatted = <<>>

\* one more call of c is issued; only the status poll repeats, and its
\* count saturates at MaxPolls
Issue(c) ==
    calls' = [calls EXCEPT ![c] = IF c = "getTranscriptionJob" /\ @ >= MaxPolls
                                  THEN @ ELSE @ + 1]

\* Abort with a fault: the failure is recorded but the run stays where it is
Abort_Swallowed(err, call) ==
    /\ pc' = pc
    /\ error' = err
    /\ failedCall' = call

\* a throw inside transcribe, or a rejected awaited promise: the run ends
Abort(err, call) ==
    /\ pc' = "Aborted"
    /\ error' = err
    /\ failedCall' = call

Goto(next) ==
    /\ pc' = next
    /\ UNCHANGED <<error, failedCall>>

\* ------------------------------------------------- transcribe, up to fetch
\* bucketExists with a fault: the listed names are never matched
bucketExists_Never == FALSE

\* buckets.includes(bucketName)
bucketExists == bucketPresent

\* lines 113-118: s3.listBuckets, then createBucket only when the name is absent
BucketCheck ==
    /\ pc = "BucketCheck"
    /\ Issue("listBuckets")
    /\ \/ Goto(IF bucketExists THEN "Upload" ELSE "BucketCreate")
       \/ Abort("RemoteOperationFailed", "listBuckets")
    /\ UNCHANGED <<envVars, fmtVars, target, bucketCreated, job, outFile, segVars>>

\* BucketCreate with a fault: a failed createBucket is tried again
BucketCreate_Retries ==
    /\ pc = "BucketCreate"
    /\ Issue("createBucket")
    /\ \/ Goto("Upload") /\ bucketCreated' = TRUE
       \/ UNCHANGED <<pc, error, failedCall, bucketCreated>>
    /\ UNCHANGED <<envVars, fmtVars, target, job, outFile, segVars>>

\* lines 116, 181-188
BucketCreate ==
    /\ pc = "BucketCreate"
    /\ Issue("createBucket")
    /\ \/ Goto("Upload") /\ bucketCreated' = TRUE
       \/ Abort("RemoteOperationFailed", "createBucket") /\ UNCHANGED bucketCreated
    /\ UNCHANGED <<envVars, fmtVars, target, job, outFile, segVars>>

\* lines 122, 210-214: uploadFile(bucketName, inputFile, mediaFile)
UploadTarget == [Bucket |-> bucketName, Key |-> mediaFile]

\* Upload with a fault: no existsSync test before the upload is issued
Upload_NoExistenceTest ==
    /\ pc = "Upload"
    /\ Issue("upload")
    /\ target' = [target EXCEPT !["upload"] = UploadTarget]
    /\ \/ fileExists /\ Goto("JobSubmit")
       \/ Abort("RemoteOperationFailed", "upload")
       \/ Abort("StreamError", "upload")
    /\ UNCHANGED <<envVars, fmtVars, bucketCreated, job, outFile, segVars>>

\* lines 122, 197-223: the existence test, then s3.upload, then the stream's error
Upload ==
    /\ pc = "Upload"
    /\ \/ /\ ~fileExists
          /\ Abort("FileNotFound", "none")
          /\ UNCHANGED <<calls, target>>
       \/ /\ fileExists
          /\ Issue("upload")
          /\ target' = [target EXCEPT !["upload"] = UploadTarget]
          /\ \/ Goto("JobSubmit")
             \/ Abort("RemoteOperationFailed", "upload")
             \/ Abort("StreamError", "upload")
    /\ UNCHANGED <<envVars, fmtVars, bucketCreated, job, outFile, segVars>>

\* JobSubmit with a fault: the job is submitted although the upload before
\* it was not awaited and has failed
JobSubmit_UploadNotAwaited ==
    /\ pc = "JobSubmit"
    /\ Issue("startTranscriptionJob")
    /\ \/ Goto("Polling")
       \/ Abort("RemoteOperationFailed", "startTranscriptionJob")
       \/ pc' = "Polling" /\ error' = "RemoteOperationFailed" /\ failedCall' = "upload"
    /\ UNCHANGED <<envVars, fmtVars, target, bucketCreated, job, outFile, segVars>>

\* lines 127-132, 245-256
JobSubmit ==
    /\ pc = "JobSubmit"
    /\ Issue("startTranscriptionJob")
    /\ \/ Goto("Polling")
       \/ Abort("RemoteOperationFailed", "startTranscriptionJob")
    /\ UNCHANGED <<envVars, fmtVars, target, bucketCreated, job, outFile, segVars>>

\* The statuses the service can report next: a job is queued, then in
\* progress, then completed or failed, and a finished job stays as it is.
NextStatuses(last) ==
    CASE last = "none"        -> JobStatuses
      [] last = "QUEUED"      -> JobStatuses
      [] last = "IN_PROGRESS" -> {"IN_PROGRESS", "COMPLETED", "FAILED"}
      [] OTHER                -> {last}

\* KeepsPolling with a fault: the loop waits for COMPLETED and nothing else
KeepsPolling_UntilCompleted(status) == status # "COMPLETED"

\* line 135: while (job.TranscriptionJobStatus === 'IN_PROGRESS')
KeepsPolling(status) == status = "IN_PROGRESS"

\* lines 134-139: one getTranscriptionJob and the loop test on its answer
Polling ==
    /\ pc = "Polling"
    /\ Issue("getTranscriptionJob")
    /\ \/ \E s \in NextStatuses(job) :
            /\ job' = s
            /\ Goto(IF KeepsPolling(s) THEN "Sleeping" ELSE "ReadResult")
       \/ Abort("RemoteOperationFailed", "getTranscriptionJob") /\ UNCHANGED job
    /\ UNCHANGED <<envVars, fmtVars, target, bucketCreated, outFile, segVars>>

\* lines 136-137: print('.') and sleep(30000), then the next poll
Sleeping ==
    /\ pc = "Sleeping"
    /\ Goto("Polling")
    /\ UNCHANGED <<envVars, fmtVars, target, bucketCreated, job, calls, outFile, segVars>>

\* job.Transcript is set on a completed job only
HasTranscript(status) == status = "COMPLETED"

\* lines 144-146: job.Transcript.TranscriptFileUri, with no test of the status
ReadResult ==
    /\ pc = "ReadResult"
    /\ IF HasTranscript(job)
         THEN Goto("Fetch")
         ELSE Abort("TypeError", "none")
    /\ UNCHANGED <<envVars, fmtVars, target, bucketCreated, job, calls, outFile, segVars>>

\* line 148: axios(url), answering with one of the documents docs
FetchFrom(docs) ==
    /\ pc = "Fetch"
    /\ Issue("fetch")
    /\ \/ /\ Goto("Convert")
          /\ items' \in docs
       \/ /\ Abort("FetchFailed", "fetch")
          /\ UNCHANGED items
    /\ UNCHANGED <<envVars, fmtVars, target, bucketCreated, job, outFile, index, convertedOutput,
                   subtitleIndex, current_start, nextline>>

Fetch == FetchFrom(Transcripts)

\* the same call where the documents are at most MaxLiveItems items long
LiveTranscripts == ItemSeqs(MaxLiveItems)

LiveFetch == FetchFrom(LiveTranscripts)

\* -------------------------------------------------------- convertJsonToSrt
\* json.results.items[i], i counted from 0 as the code counts
ItemAt(i) == items[i + 1]

HasItem(i) == 0 <= i /\ i < Len(items)

\* sliceLast with a fault: slice(0, -2) takes a letter with the space
sliceLast_Two(str) == SubSeq(str, 1, Len(str) - 2)

\* nextline.slice(0, -1)
sliceLast(str) == SubSeq(str, 1, Len(str) - 1)

\* PunctuationLine with a fault: the space before the punctuation is kept
PunctuationLine_KeepsSpace(line, content) == line \o content

\* lines 287-288: the line a punctuation item closes
PunctuationLine(line, content) == sliceLast(line) \o content

\* WordText with a fault: no space after the word
WordText_NoSpace(content) == content

\* lines 305, 308: a word and the space after it
WordText(content) == content \o <<" ">>

\* line 299: item.end_time - current_start > 5
ExceedsCue(item, start) == item.end_time - start > MaxCueSeconds * MsPerSecond

\* lines 290, 301: json.results.items[index - 1].end_time
PreviousEnd(i) == ItemAt(i - 1).end_time

\* lines 295-298: the start of the cue after a punctuation item
StartAfter(i, start) == IF HasItem(i + 1) THEN ItemAt(i + 1).start_time ELSE start

\* TrailingEnd with a fault: the last item's start time is taken for its end
TrailingEnd_StartTime ==
    LET length == Len(items)
    IN  IF ItemAt(length - 1).type # "punctuation"
          THEN ItemAt(length - 1).start_time
          ELSE ItemAt(length - 2).end_time

\* lines 313-317: the end time of the trailing cue
TrailingEnd ==
    LET length == Len(items)
    IN  IF ItemAt(length - 1).type # "punctuation"
          THEN ItemAt(length - 1).end_time
          ELSE ItemAt(length - 2).end_time

\* Cue with a fault: the cue number is written after the increment
Cue_NumberAfterIncrement(number, start, end, text, closed) ==
    [index |-> number + 1, start |-> start, end |-> end,
     formatted_start |-> secondsToMinutes(start),
     formatted_end |-> secondsToMinutes(end),
     text |-> text, closed |-> closed]

\* lines 291-293, 302-304, 320-322: one cue of the output text. closed tells
\* the cue ends with the blank line the trailing cue does not get.
Cue(number, start, end, text, closed) ==
    [index |-> number, start |-> start, end |-> end,
     formatted_start |-> secondsToMinutes(start),
     formatted_end |-> secondsToMinutes(end),
     text |-> text, closed |-> closed]

\* lines 278-283: the locals, and items[0].start_time read unguarded
Convert ==
    /\ pc = "Convert"
    /\ IF ~HasItem(0)
         THEN /\ Abort("TypeError", "none")
              /\ UNCHANGED <<index, convertedOutput, subtitleIndex,
                             current_start, nextline>>
         ELSE /\ Goto("ForEach")
              /\ index' = 0
              /\ convertedOutput' = <<>>
              /\ subtitleIndex' = 1
              /\ current_start' = ItemAt(0).start_time
              /\ nextline' = <<>>
    /\ UNCHANGED <<envVars, fmtVars, target, bucketCreated, job, calls, outFile, items>>

\* lines 286-298
Punctuation ==
    /\ pc = "ForEach"
    /\ HasItem(index)
    /\ ItemAt(index).type = "punctuation"
    /\ LET line == PunctuationLine(nextline, ItemAt(index).content)
       IN  IF ~HasItem(index - 1)
             THEN /\ Abort("TypeError", "none")
                  /\ nextline' = line
                  /\ UNCHANGED <<index, convertedOutput, subtitleIndex, current_start>>
             ELSE /\ Goto("ForEach")
                  /\ convertedOutput' =
                        Append(convertedOutput,
                               Cue(subtitleIndex, current_start,
                                   PreviousEnd(index), line, TRUE))
                  /\ subtitleIndex' = subtitleIndex + 1
                  /\ nextline' = <<>>
                  /\ current_start' = StartAfter(index, current_start)
                  /\ index' = index + 1
    /\ UNCHANGED <<envVars, fmtVars, target, bucketCreated, job, calls, outFile, items>>

\* lines 299-306
Split ==
    /\ pc = "ForEach"
    /\ HasItem(index)
    /\ ItemAt(index).type # "punctuation"
    /\ ExceedsCue(ItemAt(index), current_start)
    /\ IF ~HasItem(index - 1)
         THEN /\ Abort("TypeError", "none")
              /\ UNCHANGED <<index, convertedOutput, subtitleIndex,
                             current_start, nextline>>
         ELSE /\ Goto("ForEach")
              /\ convertedOutput' =
                    Append(convertedOutput,
                           Cue(subtitleIndex, current_start,
                               PreviousEnd(index), nextline, TRUE))
              /\ subtitleIndex' = subtitleIndex + 1
              /\ nextline' = WordText(ItemAt(index).content)
              /\ current_start' = ItemAt(index).start_time
              /\ index' = index + 1
    /\ UNCHANGED <<envVars, fmtVars, target, bucketCreated, job, calls, outFile, items>>

\* lines 307-309
AppendWord ==
    /\ pc = "ForEach"
    /\ HasItem(index)
    /\ ItemAt(index).type # "punctuation"
    /\ ~ExceedsCue(ItemAt(index), current_start)
    /\ Goto("ForEach")
    /\ nextline' = nextline \o WordText(ItemAt(index).content)
    /\ index' = index + 1
    /\ UNCHANGED <<envVars, fmtVars, target, bucketCreated, job, calls, outFile, items,
                   convertedOutput, subtitleIndex, current_start>>

\* lines 312-325: after the last item, the leftover words
Trailing ==
    /\ pc = "ForEach"
    /\ index = Len(items)
    /\ IF ItemAt(index - 1).type = "punctuation" /\ ~HasItem(index - 2)
         THEN /\ Abort("TypeError", "none")
              /\ UNCHANGED <<convertedOutput, subtitleIndex>>
         ELSE /\ Goto("Persist")
              /\ IF nextline # <<>>
                   THEN /\ convertedOutput' =
                             Append(convertedOutput,
                                    Cue(subtitleIndex, current_start,
                                        TrailingEnd, nextline, FALSE))
                        /\ subtitleIndex' = subtitleIndex + 1
                   ELSE UNCHANGED <<convertedOutput, subtitleIndex>>
    /\ UNCHANGED <<envVars, fmtVars, target, bucketCreated, job, calls, outFile, items, index,
                   current_start, nextline>>

\* ------------------------------------------------ transcribe, after convert
\* line 153: writeFile(outputFile, srt); a failed write may have created or
\* truncated the file already
Persist ==
    /\ pc = "Persist"
    /\ Issue("writeFile")
    /\ \/ /\ Goto(IF deleteFile THEN "Cleanup" ELSE "Done")
          /\ outFile' = "written"
       \/ /\ Abort("WriteFailed", "writeFile")
          /\ outFile' \in {outFile, "partial"}
    /\ UNCHANGED <<envVars, fmtVars, target, bucketCreated, job, segVars>>

\* DeleteTarget with a fault: the input path is passed for the object name
DeleteTarget_InputPath == [Bucket |-> bucketName, Key |-> inputFile]

\* lines 157, 232-235: deleteFile(bucketName, mediaFile)
DeleteTarget == [Bucket |-> bucketName, Key |-> mediaFile]

\* lines 155-158, 231-237
Cleanup ==
    /\ pc = "Cleanup"
    /\ Issue("deleteObject")
    /\ target' = [target EXCEPT !["deleteObject"] = DeleteTarget]
    /\ \/ Goto("Done")
       \/ Abort("RemoteOperationFailed", "deleteObject")
    /\ UNCHANGED <<envVars, fmtVars, bucketCreated, job, outFile, segVars>>

Next ==
    \/ BucketCheck
    \/ BucketCreate
    \/ Upload
    \/ JobSubmit
    \/ Polling
    \/ Sleeping
    \/ ReadResult
    \/ Fetch
    \/ Convert
    \/ Punctuation
    \/ Split
    \/ AppendWord
    \/ Trailing
    \/ Persist
    \/ Cleanup

Spec == Init /\ [][Next]_vars

\* Every awaited call returns and every timer fires: a run that can take a
\* step takes one. What the service answers is left open.
LiveNext ==
    \/ BucketCheck
    \/ BucketCreate
    \/ Upload
    \/ JobSubmit
    \/ Polling
    \/ Sleeping
    \/ ReadResult
    \/ LiveFetch
    \/ Convert
    \/ Punctuation
    \/ Split
    \/ AppendWord
    \/ Trailing
    \/ Persist
    \/ Cleanup

LiveSpec == Init /\ [][LiveNext]_vars /\ WF_vars(LiveNext)

\* --------------------------------------------- secondsToMinutes on its own
\* the times a lone call is given: hours, minutes, seconds and milliseconds
\* on both sides of every field's width
HourSamples == {0, 1, 23, 24, 99, 100, 101, 123}
MinuteSamples == {0, 1, 59}
SecondSamples == {0, 1, 59}
MilliSamples == {0, 5, 250, 999}

FmtInputs ==
    {((h * 60 + m) * 60 + sec) * MsPerSecond + ms :
        h \in HourSamples, m \in MinuteSamples,
        sec \in SecondSamples, ms \in MilliSamples}

FmtInit ==
    /\ RunInit
    /\ bucketPresent = TRUE
    /\ fileExists = TRUE
    /\ deleteFile = FALSE
    /\ seconds \in FmtInputs
    /\ formatted = <<>>

\* lines 21-33: one call of secondsToMinutes
Format ==
    /\ formatted = <<>>
    /\ formatted' = secondsToMinutes(seconds)
    /\ UNCHANGED <<pc, error, failedCall, envVars, bucketCreated, job, calls,
                   outFile, segVars, target, seconds>>

FmtNext == Format

FmtSpec == FmtInit /\ [][FmtNext]_vars

\* ------------------------------------------------------------- positions
LastCue == convertedOutput[Len(convertedOutput)]

\* ------------------------------------------------------------------ claims

\* C1: the cues convertJsonToSrt emits are numbered 1..N in emission order,
\* with no gap or repeat, and their start values never decrease.
C1_IndexAndStartOrder ==
    \A k \in 1..Len(convertedOutput) :
        /\ convertedOutput[k].index = k
        /\ k > 1 => convertedOutput[k - 1].start <= convertedOutput[k].start

\* C1 witness: a finished conversion with two cues whose starts differ.
C1_Witness ==
    /\ pc = "Persist"
    /\ Len(convertedOutput) >= 2
    /\ convertedOutput[1].start < convertedOutput[2].start

\* C2: every emitted cue has end >= start.
C2_EndNotBeforeStart ==
    \A k \in 1..Len(convertedOutput) :
        convertedOutput[k].end >= convertedOutput[k].start

\* C3: converting an empty item sequence fails with EmptyTranscript.
C3_EmptyTranscript ==
    (pc = "Aborted" /\ failedCall = "none" /\ calls["fetch"] = 1 /\ items = <<>>)
        => error = "EmptyTranscript"

\* a line without one trailing space, if it has one
WithoutTrailingSpace(line) ==
    IF line # <<>> /\ line[Len(line)] = " " THEN SubSeq(line, 1, Len(line) - 1)
    ELSE line

\* the forEach callback is about to run on a punctuation item at position i >= 1
AtPunctuation ==
    /\ pc = "ForEach"
    /\ HasItem(index)
    /\ index >= 1
    /\ ItemAt(index).type = "punctuation"

\* the forEach callback is about to run on a word
AtWord ==
    /\ pc = "ForEach"
    /\ HasItem(index)
    /\ ItemAt(index).type # "punctuation"

\* the step appends exactly one cue, with these values
Emits(start, end, text) ==
    /\ Len(convertedOutput') = Len(convertedOutput) + 1
    /\ SubSeq(convertedOutput', 1, Len(convertedOutput)) = convertedOutput
    /\ LET cue == convertedOutput'[Len(convertedOutput')]
       IN  /\ cue.start = start
           /\ cue.end = end
           /\ cue.text = text

\* C4: a punctuation item at position i >= 1 always closes the cue: the step
\* emits exactly one cue, whatever the duration, with start = current_start,
\* end = the end time of item i-1 and text = the buffer with the punctuation
\* attached without a space before it (also when the buffer is empty, as after
\* another punctuation item); the buffer is then empty and current_start is
\* the next item's start when there is a next item.
C4_PunctuationClosesCue ==
    [][AtPunctuation =>
          /\ pc' = "ForEach"
          /\ Emits(current_start, items[index].end_time,
                   WithoutTrailingSpace(nextline) \o ItemAt(index).content)
          /\ nextline' = <<>>
          /\ index + 1 < Len(items) => current_start' = items[index + 2].start_time
      ]_vars

\* C4 witness: [word hi 0-0.5, punctuation .] has given the one cue 0 - 0.5 "hi."
C4_Witness ==
    /\ pc = "Persist"
    /\ Len(items) = 2
    /\ items[1].content = <<"h", "i">>
    /\ items[1].end_time = 500
    /\ items[2].type = "punctuation"
    /\ Len(convertedOutput) = 1
    /\ convertedOutput[1].start = 0
    /\ convertedOutput[1].end = 500
    /\ convertedOutput[1].text = <<"h", "i", ".">>

\* C5: a word at position i whose end_time - current_start exceeds 5 seconds
\* closes a cue ending at the end time of item i-1 with the buffer as its
\* text, and the next cue starts at the word's start time with a buffer
\* holding only that word; otherwise no cue is emitted and the word is
\* appended to the buffer.
C5_DurationSplit ==
    [][AtWord =>
          IF ItemAt(index).end_time - current_start > MaxCueSeconds * MsPerSecond
            THEN /\ pc' = "ForEach"
                 /\ index >= 1
                 /\ Emits(current_start, items[index].end_time, nextline)
                 /\ current_start' = ItemAt(index).start_time
                 /\ nextline' = ItemAt(index).content \o <<" ">>
            ELSE /\ pc' = "ForEach"
                 /\ convertedOutput' = convertedOutput
                 /\ current_start' = current_start
                 /\ nextline' = nextline \o ItemAt(index).content \o <<" ">>
      ]_vars

\* the end time C6 names for the trailing cue
LastEnd ==
    IF items[Len(items)].type # "punctuation"
      THEN items[Len(items)].end_time
      ELSE items[Len(items) - 1].end_time

\* C6: after the pass over all items, a non-empty buffer gives exactly one
\* final cue with start = current_start, end = the last item's end time (the
\* second-to-last item's if the last item is punctuation) and the buffer as
\* its text; an empty buffer gives no final cue.
C6_TrailingLeftover ==
    [][(pc = "ForEach" /\ index = Len(items)) =>
          /\ pc' = "Persist"
          /\ IF nextline # <<>>
               THEN Emits(current_start, LastEnd, nextline)
               ELSE convertedOutput' = convertedOutput
      ]_vars

\* C6 witness: the pass ended with words in the buffer and the trailing cue
\* (the one cue without a blank line after it) is in the output.
C6_Witness ==
    /\ pc = "Persist"
    /\ nextline # <<>>
    /\ Len(convertedOutput) >= 2
    /\ ~LastCue.closed
    /\ LastCue.text = nextline
    /\ LastCue.end > LastCue.start

\* C6 witness of the other case: the pass ended on a punctuation item, the
\* buffer is empty and no trailing cue was added.
C6_NoLeftover ==
    pc = "Persist" /\ nextline = <<>> /\ Len(convertedOutput) >= 1 /\ LastCue.closed

\* the storage and transcription calls of a run
StorageCalls == {"listBuckets", "createBucket", "upload", "deleteObject"}
TranscriptionCalls == {"startTranscriptionJob", "getTranscriptionJob"}

\* C7 as stated: when a storage or transcription call has failed, the run is
\* aborted and no file exists at the output path.
C7_NoFileAfterAnyFailedCall ==
    failedCall \in StorageCalls \cup TranscriptionCalls =>
        pc = "Aborted" /\ outFile = "absent"

\* C7 amended: when listBuckets, createBucket, upload, startTranscriptionJob
\* or getTranscriptionJob has failed, the run is aborted with no output file
\* written and no write attempted; a failed deleteObject aborts the run too,
\* but after the output file has been written in full.
C7_NoFileAfterFailedCallBeforePersist ==
    /\ failedCall \in (StorageCalls \cup TranscriptionCalls) \ {"deleteObject"} =>
          pc = "Aborted" /\ outFile = "absent" /\ calls["writeFile"] = 0
    /\ failedCall = "deleteObject" =>
          pc = "Aborted" /\ outFile = "written" /\ calls["writeFile"] = 1

\* C7 witness: a status poll failed after an earlier poll had succeeded.
C7_Witness ==
    /\ failedCall = "getTranscriptionJob"
    /\ job = "IN_PROGRESS"
    /\ error = "RemoteOperationFailed"
    /\ pc = "Aborted"

\* C8: once the polled job is FAILED the run aborts with a JobFailed error
\* that carries the failure reason, and the result is neither fetched nor
\* converted nor written.
C8_FailedJobAborts ==
    job = "FAILED" =>
        /\ pc = "Aborted" => error = "JobFailed"
        /\ calls["fetch"] = 0
        /\ calls["writeFile"] = 0

\* C9: the run leaves the polling loop only on a terminal status, and reads
\* the result URI only of a completed job.
C9_PollsUntilTerminal ==
    /\ pc = "ReadResult" => job \in {"COMPLETED", "FAILED"}
    /\ pc = "Fetch" => job = "COMPLETED"

\* the calls that go over the network
NetworkCalls == CallNames \ {"writeFile"}

\* C10 as stated: a run whose input file is missing fails with FileNotFound
\* before any network call was issued.
C10_FileNotFoundBeforeAnyCall ==
    ~fileExists =>
        /\ \A c \in NetworkCalls : calls[c] = 0
        /\ pc = "Aborted" => error = "FileNotFound"

\* C10 amended: a run whose input file is missing never issues upload, a
\* transcription call, the result fetch, the write or deleteObject, and never
\* gets past the Upload step; it fails with FileNotFound there unless
\* listBuckets or createBucket failed first. When it fails with FileNotFound,
\* listBuckets was issued once before, and createBucket once if the bucket
\* was not listed.
C10_FileNotFoundBeforeUpload ==
    /\ ~fileExists =>
          /\ pc \in {"BucketCheck", "BucketCreate", "Upload", "Aborted"}
          /\ \A c \in CallNames \ {"listBuckets", "createBucket"} : calls[c] = 0
          /\ (pc = "Aborted" /\ failedCall = "none") => error = "FileNotFound"
    /\ error = "FileNotFound" =>
          /\ ~fileExists
          /\ pc = "Aborted"
          /\ calls["listBuckets"] = 1
          /\ calls["createBucket"] = (IF bucketPresent THEN 0 ELSE 1)

\* C10 witness: the missing file was found out after the bucket was created.
C10_Witness ==
    /\ error = "FileNotFound"
    /\ bucketCreated
    /\ calls["createBucket"] = 1

\* C11: createBucket is issued only after the bucket check found the name
\* absent from the listed buckets; when the bucket is listed no createBucket
\* is ever issued and a successful check is followed directly by Upload.
C11_CreateOnlyIfAbsent ==
    /\ calls["createBucket"] > 0 =>
          ~bucketPresent /\ calls["listBuckets"] = 1 /\ failedCall # "listBuckets"
    /\ bucketPresent =>
          /\ calls["createBucket"] = 0
          /\ ~bucketCreated
          /\ pc # "BucketCreate"
          /\ (calls["listBuckets"] = 1 /\ calls["upload"] = 0 /\ pc # "Aborted")
                => pc = "Upload"
    /\ (pc = "BucketCreate" \/ bucketCreated) => ~bucketPresent

\* C11 witness: the bucket was listed and the run has uploaded without a create.
C11_Witness ==
    /\ bucketPresent
    /\ pc = "JobSubmit"
    /\ calls["listBuckets"] = 1
    /\ calls["createBucket"] = 0

\* C11 witness of the other case: the bucket was not listed and was created.
C11_Created ==
    ~bucketPresent /\ pc = "Upload" /\ bucketCreated /\ calls["createBucket"] = 1

\* C12: with the delete flag unset no deleteObject is ever issued; with it
\* set, a run that completes has issued exactly one, a deleteObject is only
\* issued once the output file is written, and it names the bucket and the
\* key (the input file's base name) of the upload.
C12_DeleteOnlyIfFlagged ==
    /\ ~deleteFile => calls["deleteObject"] = 0 /\ pc # "Cleanup"
    /\ calls["deleteObject"] <= 1
    /\ (deleteFile /\ pc = "Done") => calls["deleteObject"] = 1
    /\ (calls["deleteObject"] > 0 \/ pc = "Cleanup") =>
          /\ deleteFile
          /\ outFile = "written"
          /\ calls["upload"] = 1
    /\ calls["deleteObject"] > 0 =>
          /\ target["deleteObject"] = target["upload"]
          /\ target["deleteObject"].Key = <<inputFile[Len(inputFile)]>>

\* C12 witness: a flagged run is done and has deleted what it uploaded.
C12_Witness ==
    /\ deleteFile
    /\ pc = "Done"
    /\ calls["deleteObject"] = 1
    /\ target["deleteObject"] = [Bucket |-> "media", Key |-> <<"talk.mp4">>]

\* C12 witness of the other case: an unflagged run is done with no delete.
C12_Kept ==
    ~deleteFile /\ pc = "Done" /\ calls["deleteObject"] = 0 /\ outFile = "written"

\* the place of each position in the order of the steps
Rank(p) ==
    CASE p = "BucketCheck"  -> 1
      [] p = "BucketCreate" -> 2
      [] p = "Upload"       -> 3
      [] p = "JobSubmit"    -> 4
      [] p = "Polling"      -> 5
      [] p = "Sleeping"     -> 5
      [] p = "ReadResult"   -> 6
      [] p = "Fetch"        -> 6
      [] p = "Convert"      -> 7
      [] p = "ForEach"      -> 7
      [] p = "Persist"      -> 8
      [] p = "Cleanup"      -> 9
      [] p = "Done"         -> 10
      [] OTHER              -> 11

\* the step during which each call is issued
StepOf(c) ==
    CASE c = "listBuckets"           -> "BucketCheck"
      [] c = "createBucket"          -> "BucketCreate"
      [] c = "upload"                -> "Upload"
      [] c = "startTranscriptionJob" -> "JobSubmit"
      [] c = "getTranscriptionJob"   -> "Polling"
      [] c = "fetch"                 -> "Fetch"
      [] c = "writeFile"             -> "Persist"
      [] c = "deleteObject"          -> "Cleanup"

\* the conversion has run over every item without a fault
Converted == items # <<>> /\ index = Len(items) /\ error = "none"

\* C13: the steps of a run follow the order bucket check, bucket create,
\* upload, job submit, polling, fetch, convert, persist, cleanup, done: no
\* step goes back or skips past the next step (the two optional steps apart),
\* a step is entered and its call issued only while nothing has failed; the
\* job is submitted only after the upload succeeded and the output is written
\* only after the conversion succeeded.
C13_StrictOrder ==
    [][/\ Rank(pc') >= Rank(pc)
       /\ pc' \notin {pc, "Aborted"} =>
             /\ error' = "none"
             /\ \/ Rank(pc') = Rank(pc)
                \/ Rank(pc') = Rank(pc) + 1
                \/ pc = "BucketCheck" /\ pc' = "Upload"
                \/ pc = "Persist" /\ pc' = "Done"
       /\ \A c \in CallNames :
             calls'[c] # calls[c] => pc = StepOf(c) /\ error = "none"
       /\ calls'["startTranscriptionJob"] # calls["startTranscriptionJob"] =>
             calls["upload"] = 1 /\ failedCall = "none"
       /\ outFile' # outFile => pc = "Persist" /\ Converted
       /\ calls'["writeFile"] # calls["writeFile"] => Converted
      ]_vars

\* C13 witness: a run that created the bucket and deleted the object is done.
C13_Witness ==
    /\ pc = "Done"
    /\ \A c \in CallNames : calls[c] >= 1
    /\ Len(convertedOutput) >= 2

\* C14: every call but the status poll is issued at most once in a run; once
\* a call has failed the run is aborted, the error it failed with is what
\* the run fails with, and no further call is issued.
C14_NoRetry ==
    [][/\ \A c \in CallNames \ {"getTranscriptionJob"} : calls'[c] <= 1
       /\ failedCall' # "none" =>
             /\ pc' = "Aborted"
             /\ error' \in {"RemoteOperationFailed", "StreamError",
                            "FetchFailed", "WriteFailed"}
       /\ failedCall # "none" => UNCHANGED <<calls, error, failedCall>>
      ]_vars

\* C14 witness: the poll was repeated, then the single fetch failed.
C14_Witness ==
    /\ pc = "Aborted"
    /\ failedCall = "fetch"
    /\ calls["getTranscriptionJob"] >= 2
    /\ calls["fetch"] = 1

\* ---- reading a timestamp back
IsDigit(c) == \E d \in 1..10 : DigitChar[d] = c

DigitValue(c) == (CHOOSE d \in 1..10 : DigitChar[d] = c) - 1

RECURSIVE ParseNat(_)
\* the number a string of digits writes
ParseNat(str) ==
    IF str = <<>> THEN 0
    ELSE ParseNat(SubSeq(str, 1, Len(str) - 1)) * 10 + DigitValue(str[Len(str)])

AllDigits(str) == str # <<>> /\ \A k \in 1..Len(str) : IsDigit(str[k])

\* the characters before the first colon
HourField(str) ==
    LET colons == {k \in 1..Len(str) : str[k] = ":"}
        first  == CHOOSE k \in colons : \A j \in colons : k <= j
    IN  SubSeq(str, 1, first - 1)

MsPerHour == 3600 * MsPerSecond

\* C15: from 100 hours on, the hour field of the timestamp has more than two
\* digits and shows the whole hour count.
C15_HoursGrow ==
    (formatted # <<>> /\ seconds >= 100 * MsPerHour) =>
        /\ Len(HourField(formatted)) > 2
        /\ AllDigits(HourField(formatted))
        /\ ParseNat(HourField(formatted)) = seconds \div MsPerHour

\* C16: below 100 hours the timestamp of a whole number of milliseconds has
\* the shape HH:MM:SS.mmm (two, two, two and three digits), MM and SS are at
\* most 59, and the fields add up to the time given.
C16_TimestampRoundTrip ==
    (formatted # <<>> /\ seconds < 100 * MsPerHour) =>
        /\ Len(formatted) = 12
        /\ formatted[3] = ":" /\ formatted[6] = ":" /\ formatted[9] = "."
        /\ \A k \in (1..12) \ {3, 6, 9} : IsDigit(formatted[k])
        /\ LET hh  == ParseNat(SubSeq(formatted, 1, 2))
               mm  == ParseNat(SubSeq(formatted, 4, 5))
               ss  == ParseNat(SubSeq(formatted, 7, 8))
               mmm == ParseNat(SubSeq(formatted, 10, 12))
           IN  /\ mm <= 59
               /\ ss <= 59
               /\ ((hh * 60 + mm) * 60 + ss) * MsPerSecond + mmm = seconds

\* C16 witness: 3661.25 s has given 01:01:01.250
C16_Witness ==
    /\ seconds = 3661250
    /\ formatted = <<"0", "1", ":", "0", "1", ":", "0", "1", ".", "2", "5", "0">>

\* C16 witness of the other example: 0 s has given 00:00:00.000
C16_Zero ==
    /\ seconds = 0
    /\ formatted = <<"0", "0", ":", "0", "0", ":", "0", "0", ".", "0", "0", "0">>

Terminal == pc \in {"Done", "Aborted"}

InProgress == pc \in {"Polling", "Sleeping"} /\ job = "IN_PROGRESS"

\* C17: when every call returns, a run ends Done or Aborted unless the job
\* stays IN_PROGRESS for ever; and a poll answered IN_PROGRESS is always
\* followed by the sleep and another poll, however many polls there were, so
\* a job that stays IN_PROGRESS keeps the run polling without end.
C17_EndsUnlessInProgress ==
    /\ [][(pc = "Polling" /\ job' = "IN_PROGRESS" /\ failedCall' = "none")
             => pc' = "Sleeping"]_vars
    /\ [][pc = "Sleeping" => pc' = "Polling" /\ job' = job]_vars
    /\ <>Terminal \/ <>[]InProgress

\* C17 witness: the poll counter is at its cap and the run is about to poll again.
C17_Witness ==
    /\ pc = "Sleeping"
    /\ job = "IN_PROGRESS"
    /\ calls["getTranscriptionJob"] = MaxPolls

\* C17, the other half: not every run ends (violated by the run that polls
\* a job in progress for ever).
C17_AlwaysEnds == <>Terminal

\* convertJsonToSrt has thrown on a sequence that has items
ConvertFault ==
    pc = "Aborted" /\ failedCall = "none" /\ error = "TypeError" /\ items # <<>>

\* C18: a cue closed at position 0 (the first item is punctuation, or the
\* first word alone exceeds 5 seconds) does not read the end time of an item
\* before the first and does not end in an undefined-access fault.
C18_LeadingItemGuarded == ~ConvertFault

RECURSIVE Flatten(_)
\* the strings of a sequence, one after the other
Flatten(strs) ==
    IF strs = <<>> THEN <<>>
    ELSE Flatten(SubSeq(strs, 1, Len(strs) - 1)) \o strs[Len(strs)]

\* a string without its spaces
NoSpaces(str) == SelectSeq(str, LAMBDA c : c # " ")

CueTexts == [k \in 1..Len(convertedOutput) |-> convertedOutput[k].text]

ContentsUpTo(n) == [k \in 1..n |-> items[k].content]

\* C19: when convertJsonToSrt completes, the cue texts in cue order, spaces
\* apart, are the items' contents in item order: every token once, none
\* dropped or doubled. During the pass the same holds of the cues and the
\* buffer against the items handled so far.
C19_TokenConservation ==
    /\ pc = "ForEach" =>
          NoSpaces(Flatten(CueTexts) \o nextline) = Flatten(ContentsUpTo(index))
    /\ pc \in {"Persist", "Cleanup", "Done"} =>
          NoSpaces(Flatten(CueTexts)) = Flatten(ContentsUpTo(Len(items)))

\* C19 witness: three items went through a punctuation cue and a trailing cue.
C19_Witness ==
    /\ pc = "Persist"
    /\ Len(items) = 3
    /\ items[2].type = "punctuation"
    /\ Len(convertedOutput) = 2
    /\ convertedOutput[1].text = <<"h", "i", ".">>
    /\ convertedOutput[2].text = <<"a", " ">>

\* C20: after each item the buffer is empty if the item was punctuation and
\* otherwise is non-empty and ends with a space; so the character a
\* punctuation item removes is always a space, and after a final punctuation
\* item the buffer is empty and no trailing cue is emitted.
C20_BufferShape ==
    /\ (pc \in {"ForEach", "Persist"} /\ index >= 1) =>
          IF items[index].type = "punctuation"
            THEN nextline = <<>>
            ELSE nextline # <<>> /\ nextline[Len(nextline)] = " "
    /\ (pc = "ForEach" /\ HasItem(index) /\ ItemAt(index).type = "punctuation") =>
          nextline = <<>> \/ nextline[Len(nextline)] = " "
    /\ (pc = "Persist" /\ items[Len(items)].type = "punctuation") =>
          /\ nextline = <<>>
          /\ convertedOutput # <<>>
          /\ \A k \in 1..Len(convertedOutput) : convertedOutput[k].closed

\* C20 witness: a punctuation item is next and the buffer ends with the space
\* it will remove.
C20_Witness ==
    /\ pc = "ForEach"
    /\ HasItem(index)
    /\ ItemAt(index).type = "punctuation"
    /\ nextline = <<"h", "i", " ", "a", " ">>

====
